---- MODULE Spec2Model ----
(***************************************************************************)
(* A model of src/app/elasticsearch_client.py: the ElasticsearchClient     *)
(* wrapper (construction with a liveness check, single and batch upload,   *)
(* and the scroll-paginated query generator with its finally-block cursor  *)
(* release), together with the Elasticsearch backend it talks to.          *)
(*                                                                         *)
(* The generator returned by query() is modelled pull by pull: one action  *)
(* is one next() (or close()) of the consumer, which runs the generator    *)
(* from where it is suspended to its next yield or to its end, with every  *)
(* backend request it makes on the way (search or scroll, and the          *)
(* clear_scroll of the finally block).  Two iterations on the same client  *)
(* interleave pull by pull, as the single-threaded, blocking code does.    *)
(***************************************************************************)
EXTENDS Integers, Sequences, FiniteSets, TLC

\* ------------------------------------------------------------------ bounds
MaxDocs == 2   \* documents in the queried index: 0..MaxDocs
MaxPage == 2   \* page sizes (the size argument): 1..MaxPage
MaxGen == 1    \* how often the backend re-issues a cursor under a new token
MaxBatch == 3  \* documents in one upload_documents call: 0..MaxBatch
MaxExtra == 1  \* pulls made on a generator after it has ended
MaxCloses == 1 \* explicit close() calls on the client

Iters == {1, 2}          \* query iterations alive on the one client instance
Ctxs == {1, 2}           \* server-side scroll contexts (one per search)

\* ------------------------------------------------------------ Python values
\* Optional[...]: None is the empty tuple, a present value x is <<x>>.
None == <<>>
Some(x) == <<x>>

\* A scroll id names a server-side context c; the backend may hand the same
\* context out again under a fresh id (generation g).  NoToken is Python's
\* None in the scroll_id variable.
NoToken == [c |-> 0, g |-> 0]
Token(c, g) == [c |-> c, g |-> g]

\* dict.get(key): the value, or None when the key is absent.
Get(response, key) == IF key \in DOMAIN response THEN response[key] ELSE NoToken

\* Python truthiness of scroll_id in "if scroll_id:".
Truthy(tok) == tok # NoToken

\* ----------------------------------------------------------------- backend
\* The indexed payload of document k and its hit envelope.
Source(k) == [n |-> k, tag |-> IF k % 2 = 0 THEN "even" ELSE "odd"]
Hit(k) == ("_id" :> k) @@ ("_source" :> Source(k))

\* Errors the elasticsearch client library raises.
TransportError == "TransportError"   \* any transport / API failure
NotFoundError == "NotFoundError"     \* the scroll context is gone (404)
ValueError == "ValueError"           \* scroll() called with an empty scroll_id

\* Query-string and Query-DSL inputs a caller can pass.
QueryStrings == {"tag:even"}
Queries == {[term |-> [tag |-> "odd"]]}

\* The same with the inputs a single iteration is run on: the explicit
\* match-all query and a second query string.
AllQueryStrings == QueryStrings \cup {"tag:odd"}
AllQueries == Queries \cup {[match_all |-> <<>>]}

\* Backend evaluation of one query clause against one document.
Matches(clause, src) ==
    IF "match_all" \in DOMAIN clause THEN TRUE
    ELSE IF "query_string" \in DOMAIN clause
         THEN (clause.query_string.query = "tag:even" /\ src.tag = "even")
              \/ (clause.query_string.query = "tag:odd" /\ src.tag = "odd")
    ELSE IF "term" \in DOMAIN clause THEN src.tag = clause.term.tag
    ELSE FALSE

RECURSIVE Filter(_, _)
Filter(docs, body) ==
    IF docs = <<>> THEN <<>>
    ELSE IF Matches(body.query, Head(docs)["_source"])
         THEN <<Head(docs)>> \o Filter(Tail(docs), body)
         ELSE Filter(Tail(docs), body)

\* The page of at most n hits that follows position pos of a result list.
Page(m, pos, n) ==
    SubSeq(m, pos + 1, IF pos + n <= Len(m) THEN pos + n ELSE Len(m))

\* A response envelope: hits.hits[] and, unless the backend leaves it out,
\* the _scroll_id field.
Response(tok, page) ==
    IF tok = NoToken THEN ("hits" :> [hits |-> page])
    ELSE ("_scroll_id" :> tok) @@ ("hits" :> [hits |-> page])

\* ------------------------------------------------------------------- state
VARIABLES
    dataset,    \* the index: the sequence of hits, in the backend's order
    ctx,        \* backend: scroll context c -> [st, body, size, pos, owner, by]
    nctx,       \* backend: number of scroll contexts opened so far
    pc,         \* generator i: where it stands
    args,       \* generator i: the arguments of the query() call
    scroll_id,  \* generator i: local variable scroll_id
    hits,       \* generator i: local variable hits (the current page)
    idx,        \* generator i: index in hits of the hit yielded last
    pend,       \* generator i: what the finally block was entered with
    err,        \* consumer of i: the exception the iteration raised to it
    out,        \* consumer of i: the documents yielded so far
    npull,      \* consumer of i: number of pulls (next() calls) made
    reqs,       \* history: the backend requests iteration i issued
    client,     \* the wrapper object: "unbuilt", "ready" or "failed"
    conn,       \* the connection parameters the Elasticsearch object got
    cerr,       \* the exception the constructor raised
    pings,      \* history: the results of the ping calls
    upc,        \* upload_documents: "idle", "loop", "returned" or "raised"
    udocs,      \* upload_documents: the documents argument
    upos,       \* upload_documents: documents taken from the iterator
    results,    \* upload_documents: local variable results
    uret,       \* caller of upload_documents: the list returned
    uerr,       \* caller of upload_documents: the exception raised
    store,      \* backend: the documents persisted in the target index
    ureqs,      \* history: the index requests issued
    wpc,        \* the with block on the client: "out", "in" or "left"
    wlog,       \* history of the with block and of the close() calls
    mpc,        \* send_email.py: "start", "parsed", "built" or "exit"
    argv,       \* send_email.py: the command line of the run
    message,    \* send_email.py: the message create_message returned
    delivered,  \* SMTP server: the messages accepted, with their connection
    mexc,       \* send_email.py: the exception raised inside main's try
    code        \* send_email.py: the exit code of the process

vars == <<dataset, ctx, nctx, pc, args, scroll_id, hits, idx, pend, err, out,
          npull, reqs, client, conn, cerr, pings, upc, udocs, upos, results,
          uret, uerr, store, ureqs, wpc, wlog, mpc, argv, message,
          delivered, mexc, code>>

cvars == <<client, conn, cerr, pings>>

uvars == <<upc, udocs, upos, results, uret, uerr, store, ureqs>>

wvars == <<wpc, wlog>>

mvars == <<mpc, argv, message, delivered, mexc, code>>

qvars == <<pc, args, scroll_id, hits, idx, pend, err, out, npull, reqs>>

NoArgs == [query |-> None, query_string |-> None, size |-> 0]
NoCtx == [st |-> "unused", body |-> None, size |-> 0, pos |-> 0, owner |-> 0,
          by |-> {}]

\* One entry of the request history.
Req(op, tok, body, res, rtok, n) ==
    [op |-> op, tok |-> tok, body |-> body, res |-> res, rtok |-> rtok, n |-> n]

Terminal == {"done", "raised", "closed"}

InitQuery ==
    /\ ctx = [c \in Ctxs |-> NoCtx]
    /\ nctx = 0
    /\ pc = [i \in Iters |-> "none"]
    /\ args = [i \in Iters |-> NoArgs]
    /\ scroll_id = [i \in Iters |-> NoToken]
    /\ hits = [i \in Iters |-> <<>>]
    /\ idx = [i \in Iters |-> 0]
    /\ pend = [i \in Iters |-> "none"]
    /\ err = [i \in Iters |-> "none"]
    /\ out = [i \in Iters |-> <<>>]
    /\ npull = [i \in Iters |-> 0]
    /\ reqs = [i \in Iters |-> <<>>]

\* ------------------------------------------------------------------- query
\* A resolution that prefers the free-text string to the structured query.
QueryBodyStringFirst(query, query_string) ==
    IF query_string # None
    THEN [query |-> [query_string |-> [query |-> query_string[1]]]]
    ELSE IF query # None THEN [query |-> query[1]]
    ELSE [query |-> [match_all |-> <<>>]]

\* Lines 151-166: the body of the initial search.
QueryBody(query, query_string) ==
    IF query # None THEN [query |-> query[1]]
    ELSE IF query_string # None
         THEN [query |-> [query_string |-> [query |-> query_string[1]]]]
    ELSE [query |-> [match_all |-> <<>>]]

\* The result list the backend computes for a search body.
Matching(body) == Filter(dataset, body)

\* client.query(index, query, query_string, size): creates the generator;
\* no line of the body runs before the first pull.
\* A query() that is a plain function: the call itself issues the search.
CallWithEager(i, structured, strings) ==
    /\ pc[i] = "none"
    /\ \E q \in {None} \cup {Some(x) : x \in structured},
          qs \in {None} \cup {Some(s) : s \in strings},
          size \in 1..MaxPage :
         /\ args' = [args EXCEPT ![i] = [query |-> q, query_string |-> qs,
                                         size |-> size]]
         /\ reqs' = [reqs EXCEPT ![i] = Append(@,
                        Req("search", NoToken, Some(QueryBody(q, qs)),
                            TransportError, NoToken, 0))]
    /\ pc' = [pc EXCEPT ![i] = "raised"]
    /\ err' = [err EXCEPT ![i] = TransportError]
    /\ UNCHANGED <<cvars, uvars, wvars, mvars>>
    /\ UNCHANGED <<dataset, ctx, nctx, scroll_id, hits, idx, pend, out, npull>>

CallWith(i, structured, strings) ==
    /\ pc[i] = "none"
    /\ \A j \in Iters : j < i => pc[j] # "none"
    /\ \E q \in {None} \cup {Some(x) : x \in structured},
          qs \in {None} \cup {Some(s) : s \in strings},
          size \in 1..MaxPage :
         args' = [args EXCEPT ![i] = [query |-> q, query_string |-> qs,
                                      size |-> size]]
    /\ pc' = [pc EXCEPT ![i] = "new"]
    /\ UNCHANGED <<cvars, uvars, wvars, mvars>>
    /\ UNCHANGED <<dataset, ctx, nctx, scroll_id, hits, idx, pend, err, out,
                   npull, reqs>>

Call(i) == CallWith(i, Queries, QueryStrings)

\* A cleanup that never issues the release.
ReleasesNever(tok) == FALSE

\* Line 200: whether the finally block issues clear_scroll.
Releases(tok) == Truthy(tok)

\* What the backend answers to clear_scroll(tok).
ClearVerdict(ctx1, tok) ==
    IF ctx1[tok.c].st = "open" THEN "ok" ELSE NotFoundError

\* A finally block without the inner try/except: an error of clear_scroll
\* replaces whatever was pending.
AfterReleaseUnguarded(pending, cleared) ==
    IF cleared # "ok" THEN cleared ELSE pending

\* Lines 201-206: what leaves the finally block, given what entered it
\* (pending) and the result of clear_scroll: the except clause swallows
\* every error of the release.
AfterRelease(pending, cleared) == pending

\* How the generator ends for its consumer.
Outcome(completion) ==
    CASE completion = "return" -> "done"
      [] completion = "GeneratorExit" -> "closed"
      [] OTHER -> "raised"

\* Errors wrapped in a QueryError of the wrapper's own.
PropagateWrapped(e) == "QueryError"

\* An exception leaving the generator reaches the consumer as it is: no
\* line of query() catches or wraps it.
Propagate(e) == e

\* The generator ends: StopIteration, the close() returning, or the error.
Leave(i, completion) ==
    /\ pc' = [pc EXCEPT ![i] = Outcome(completion)]
    /\ err' = [err EXCEPT ![i] = IF Outcome(completion) = "raised"
                                 THEN Propagate(completion) ELSE "none"]

\* Lines 198-206, the finally block, entered with the completion of the try
\* block (a return, GeneratorExit or an error) while the generator holds
\* tok; ctx1 and reqs1 are the backend and the history as the try block
\* left them.  With a scroll id held clear_scroll is called with it: the
\* backend releases the context, or the call fails (transport, or the
\* context is already gone) and the context stays as it was.
Finally(i, ctx1, reqs1, tok, completion) ==
    /\ pend' = [pend EXCEPT ![i] = completion]
    /\ IF Releases(tok)
       THEN \E res \in {ClearVerdict(ctx1, tok), TransportError} :
              /\ ctx' = IF res = "ok"
                        THEN [ctx1 EXCEPT ![tok.c].st = "cleared",
                                          ![tok.c].by = @ \cup {i}]
                        ELSE ctx1
              /\ reqs' = [reqs1 EXCEPT ![i] = Append(@,
                             Req("clear", tok, None, res, NoToken, 0))]
              /\ Leave(i, AfterRelease(completion, res))
       ELSE /\ ctx' = ctx1
            /\ reqs' = reqs1
            /\ Leave(i, completion)

\* Lines 184 and 196: what is yielded for a hit, its indexed payload.
Unwrap(hit) == hit["_source"]

\* A query that never asks for a second page.
MoreNever(page) == FALSE

\* A loop that stops at the first page shorter than the largest page size.
MoreWhileFull(page) == Len(page) >= MaxPage

\* Line 187, "while hits": another page is fetched after a non-empty one.
More(page) == page # <<>>

\* A generator that keeps the first scroll id it was given.
TrackFirst(held, response) ==
    IF Truthy(held) THEN held ELSE Get(response, "_scroll_id")

\* Lines 178 and 192: scroll_id is overwritten with the id of the response
\* just received (None when it has none).
Track(held, response) == Get(response, "_scroll_id")

\* Lines 182-187 and 193-196 with a fresh response: take its page; yield the
\* first hit's _source and suspend, or, the page being empty, fall out of
\* the while loop into the finally block.
EnterPage(i, ctx1, reqs1, response) ==
    LET tok == Track(scroll_id[i], response)
        page == response["hits"].hits
    IN /\ scroll_id' = [scroll_id EXCEPT ![i] = tok]
       /\ hits' = [hits EXCEPT ![i] = page]
       /\ IF page # <<>>
          THEN /\ out' = [out EXCEPT ![i] = Append(@, Unwrap(page[1]))]
               /\ idx' = [idx EXCEPT ![i] = 1]
               /\ pc' = [pc EXCEPT ![i] = "yield"]
               /\ ctx' = ctx1
               /\ reqs' = reqs1
               /\ UNCHANGED <<pend, err>>
          ELSE /\ out' = out
               /\ idx' = [idx EXCEPT ![i] = 0]
               /\ Finally(i, ctx1, reqs1, tok, "return")

\* The first pull, the search failing (lines 151-175): the call is outside
\* the try block, so the error reaches the consumer without any cleanup.
StartFails(i) ==
    /\ pc[i] = "new"
    /\ npull' = [npull EXCEPT ![i] = @ + 1]
    /\ pc' = [pc EXCEPT ![i] = "raised"]
    /\ err' = [err EXCEPT ![i] = Propagate(TransportError)]
    /\ reqs' = [reqs EXCEPT ![i] = Append(@,
                   Req("search", NoToken,
                       Some(QueryBody(args[i].query, args[i].query_string)),
                       TransportError, NoToken, 0))]
    /\ UNCHANGED <<cvars, uvars, wvars, mvars>>
    /\ UNCHANGED <<dataset, ctx, nctx, args, scroll_id, hits, idx, pend, out>>

\* The first pull, the search succeeding (lines 151-187).  The backend opens
\* a scroll context and returns its id with the first page; withId = FALSE
\* is a response that carries no _scroll_id (no context is opened for it).
Start(i, withId) ==
    /\ pc[i] = "new"
    /\ npull' = [npull EXCEPT ![i] = @ + 1]
    /\ LET body == QueryBody(args[i].query, args[i].query_string)
           page == Page(Matching(body), 0, args[i].size)
           c == nctx + 1
           tok == IF withId THEN Token(c, 0) ELSE NoToken
           response == Response(tok, page)
           ctx1 == IF withId
                   THEN [ctx EXCEPT ![c] =
                           [st |-> "open", body |-> Some(body),
                            size |-> args[i].size, pos |-> Len(page),
                            owner |-> i, by |-> {i}]]
                   ELSE ctx
           reqs1 == [reqs EXCEPT ![i] = Append(@,
                       Req("search", NoToken, Some(body), "ok", tok, Len(page)))]
       IN /\ nctx' = IF withId THEN c ELSE nctx
          /\ EnterPage(i, ctx1, reqs1, response)
    /\ UNCHANGED <<cvars, uvars, wvars, mvars>>
    /\ UNCHANGED <<dataset, args>>

\* A scroll id kept on the client object instead of in the generator: every
\* iteration scrolls with the id of the cursor opened last.
ScrollTokenShared(i) ==
    LET held == {scroll_id[j] : j \in Iters} \ {NoToken}
    IN IF held = {} THEN NoToken
       ELSE CHOOSE t \in held : \A u \in held : u.c <= t.c

\* The scroll id the scroll call of line 189 is made with.
ScrollToken(i) == scroll_id[i]

\* What the backend answers to scroll(tok) without looking at its data:
\* "ok" when the context is open, else the error raised.
ScrollVerdict(tok) ==
    IF tok = NoToken THEN ValueError
    ELSE IF ctx[tok.c].st # "open" THEN NotFoundError
    ELSE "ok"

\* The ids the backend may return for an open context reached with tok: the
\* same id, a re-issued one, or none at all.
NextTokens(tok) ==
    {tok, NoToken} \cup (IF tok.g < MaxGen THEN {Token(tok.c, tok.g + 1)} ELSE {})

\* A scroll loop that treats a failed fetch as the end of the results.
ScrollRaisesSwallowed(e) == "return"

\* What the generator does with an error raised by the scroll call of line
\* 188: nothing catches it, so it is the completion of the try block.
ScrollRaises(e) == e

\* Lines 187-196 and 198-206 with the scroll call failing: the backend
\* rejects the request (no id, context gone) or the transport fails.
\* scroll_id keeps the value it had before the call.
ScrollFails(i) ==
    /\ \E e \in {TransportError, ScrollVerdict(ScrollToken(i))} \ {"ok"} :
         Finally(i, ctx,
                 [reqs EXCEPT ![i] = Append(@,
                    Req("scroll", ScrollToken(i), None, e, NoToken, 0))],
                 scroll_id[i], ScrollRaises(e))
    /\ UNCHANGED <<scroll_id, hits, idx, out>>

\* Lines 187-196 with the scroll call succeeding: the backend advances the
\* context by one page and answers with it.
ScrollOk(i) ==
    /\ ScrollVerdict(ScrollToken(i)) = "ok"
    /\ LET tok == ScrollToken(i)
           c == tok.c
           page == Page(Matching(ctx[c].body[1]), ctx[c].pos, ctx[c].size)
           ctx1 == [ctx EXCEPT ![c].pos = @ + Len(page), ![c].by = @ \cup {i}]
       IN \E rtok \in NextTokens(tok) :
            EnterPage(i, ctx1,
                      [reqs EXCEPT ![i] = Append(@,
                         Req("scroll", tok, None, "ok", rtok, Len(page)))],
                      Response(rtok, page))

\* A for loop that leaves the page one hit early.
HasNextEarly(k, page) == k + 1 < Len(page)

\* Lines 183 and 195, "for hit in hits": after the k-th hit of the page was
\* yielded the loop has another one to yield.
HasNext(k, page) == k < Len(page)

\* A later pull, resuming after a yield: the for loop yields the next hit of
\* the page; or, the page being exhausted, the while test of line 187 sends
\* the generator to the scroll call, and on to the next yield or to its end.
Pull(i) ==
    /\ pc[i] = "yield"
    /\ npull' = [npull EXCEPT ![i] = @ + 1]
    /\ IF HasNext(idx[i], hits[i])
       THEN /\ idx' = [idx EXCEPT ![i] = @ + 1]
            /\ out' = [out EXCEPT ![i] = Append(@, Unwrap(hits[i][idx[i] + 1]))]
            /\ UNCHANGED <<ctx, pc, pend, err, scroll_id, hits, reqs>>
       ELSE IF More(hits[i])
       THEN ScrollFails(i) \/ ScrollOk(i)
       ELSE /\ Finally(i, ctx, reqs, scroll_id[i], "return")
            /\ UNCHANGED <<scroll_id, hits, idx, out>>
    /\ UNCHANGED <<cvars, uvars, wvars, mvars>>
    /\ UNCHANGED <<dataset, nctx, args>>

\* The consumer closes (or drops) the generator.  Before the first pull no
\* line of the body has run and none will; at a yield, GeneratorExit is
\* raised there and the finally block runs.
Close(i) ==
    /\ pc[i] \in {"new", "yield"}
    /\ IF pc[i] = "new"
       THEN /\ pc' = [pc EXCEPT ![i] = "closed"]
            /\ UNCHANGED <<ctx, pend, err, reqs>>
       ELSE Finally(i, ctx, reqs, scroll_id[i], "GeneratorExit")
    /\ UNCHANGED <<cvars, uvars, wvars, mvars>>
    /\ UNCHANGED <<dataset, nctx, args, scroll_id, hits, idx, out, npull>>

\* A sequence that a pull after its end starts over.
PullEndedRestarts(i) ==
    /\ pc[i] \in Terminal
    /\ npull[i] < Len(out[i]) + 1 + MaxExtra
    /\ pc' = [pc EXCEPT ![i] = "new"]
    /\ UNCHANGED <<cvars, uvars, wvars, mvars>>
    /\ UNCHANGED <<dataset, ctx, nctx, args, scroll_id, hits, idx, pend, err,
                   out, npull, reqs>>

\* A pull on a generator that has ended (returned, raised or was closed): no
\* line of query() runs and no request is issued; next() raises
\* StopIteration.
PullEnded(i) ==
    /\ pc[i] \in Terminal
    /\ npull[i] < Len(out[i]) + 1 + MaxExtra
    /\ npull' = [npull EXCEPT ![i] = @ + 1]
    /\ UNCHANGED <<cvars, uvars, wvars, mvars>>
    /\ UNCHANGED <<dataset, ctx, nctx, pc, args, scroll_id, hits, idx, pend,
                   err, out, reqs>>

\* Backend: the retention window ("2m") of an open context elapses.
Expire(c) ==
    /\ ctx[c].st = "open"
    /\ ctx' = [ctx EXCEPT ![c].st = "expired"]
    /\ UNCHANGED <<cvars, uvars, wvars, mvars>>
    /\ UNCHANGED <<dataset, nctx>>
    /\ UNCHANGED qvars

\* ------------------------------------------------------------ construction
Endpoints == {"https://es-a:9200", "https://es-b:9200"}
ApiKeys == {"key", "other-key"}
CaCerts == {"/etc/ca.pem"}

NoConn == [hosts |-> <<>>, api_key |-> None]

\* Lines 36-45: the keyword arguments of Elasticsearch(...).
ConnectionParams(endpoint, api_key, ca_cert) ==
    IF ca_cert # None
    THEN [hosts |-> <<endpoint>>, api_key |-> Some(api_key),
          ca_certs |-> ca_cert[1], verify_certs |-> TRUE]
    ELSE [hosts |-> <<endpoint>>, api_key |-> Some(api_key)]

\* The results of self._client.ping(): True, False, or an error raised.
PingResults == {"True", "False", TransportError}

\* An exception value: its type, the endpoint its message names and the
\* type of the exception it was raised from.  NoExc: nothing was raised.
NoExc == [type |-> "none", endpoint |-> "", cause |-> "none"]

\* A liveness check that only guards against ping raising and never looks
\* at the value it returns.
PingCheckUnread(endpoint, ping) ==
    IF ping \in {"True", "False"} THEN NoExc
    ELSE [type |-> ping, endpoint |-> "", cause |-> "none"]

\* Lines 52-53: inside the try block, a ping that is not true raises
\* ConnectionError naming the endpoint; a ping that raises, raises.
PingCheck(endpoint, ping) ==
    IF ping = "True" THEN NoExc
    ELSE IF ping = "False"
         THEN [type |-> "ConnectionError", endpoint |-> endpoint, cause |-> "none"]
    ELSE [type |-> ping, endpoint |-> "", cause |-> "none"]

\* Lines 51-57: what the try/except around ping leaves the constructor
\* with: NoExc (the constructor returns) or the exception it raises.  The
\* except clause catches every Exception of the try block, the
\* ConnectionError of line 53 included, and raises ConnectionError from it.
Validate(endpoint, ping) ==
    LET inTry == PingCheck(endpoint, ping)
    IN IF inTry.type = "none" THEN NoExc
       ELSE [type |-> "ConnectionError", endpoint |-> endpoint,
             cause |-> inTry.type]

\* ElasticsearchClient(endpoint, api_key, ca_cert), lines 36-57.
Construct(endpoint, api_key, ca_cert, ping) ==
    /\ client = "unbuilt"
    /\ conn' = ConnectionParams(endpoint, api_key, ca_cert)
    /\ pings' = Append(pings, ping)
    /\ cerr' = Validate(endpoint, ping)
    /\ client' = IF Validate(endpoint, ping) = NoExc THEN "ready" ELSE "failed"
    /\ UNCHANGED <<uvars, wvars, mvars>>
    /\ UNCHANGED <<dataset, ctx, nctx>>
    /\ UNCHANGED qvars

\* ------------------------------------------------------------------ upload
Documents == {[user |-> "ann"], [user |-> "bob"]}

RECURSIVE SeqsUpTo(_, _)
SeqsUpTo(S, n) ==
    IF n = 0 THEN {<<>>}
    ELSE LET shorter == SeqsUpTo(S, n - 1)
         IN shorter \cup {Append(q, x) : q \in shorter, x \in S}

\* The backend's acknowledgment of an index request: the id (generated when
\* the caller gave none), the version and the result status.
Ack(doc_id, n) ==
    [id |-> IF doc_id # None THEN doc_id[1] ELSE 100 + n, version |-> 1,
     result |-> "created"]

\* Lines 79-81, upload_document: one index request with the given id; the
\* backend's answer is returned as it is.
upload_document(document, doc_id, answer) == answer

\* Results collected newest first.
AccumulateFront(acc, result) == <<result>> \o acc

\* Line 107: results.append(result).
Accumulate(acc, result) == Append(acc, result)

\* A batch upload that skips a failing document and carries on.
UploadRaisesSkipped(e) == [upc |-> "loop", uerr |-> "none"]

\* Lines 105-106: an error of upload_document is caught nowhere; it ends
\* the loop and upload_documents, and reaches the caller as it is.
UploadRaises(e) == [upc |-> "raised", uerr |-> e]

\* client.upload_documents(index, documents), line 104.
UploadCall(docs) ==
    /\ client = "ready"
    /\ upc = "idle"
    /\ upc' = "loop"
    /\ udocs' = docs
    /\ upos' = 0
    /\ results' = <<>>
    /\ UNCHANGED <<uret, uerr, store, ureqs>>
    /\ UNCHANGED <<cvars, wvars, mvars>>
    /\ UNCHANGED <<dataset, ctx, nctx>>
    /\ UNCHANGED qvars

\* Lines 105-107, one turn of the loop with the upload succeeding: the
\* backend persists the document and acknowledges it.
UploadNext ==
    /\ upc = "loop"
    /\ upos < Len(udocs)
    /\ LET document == udocs[upos + 1]
           ack == Ack(None, Len(store) + 1)
           result == upload_document(document, None, ack)
       IN /\ store' = Append(store, [id |-> ack.id, document |-> document])
          /\ ureqs' = Append(ureqs, [document |-> document, doc_id |-> None,
                                     res |-> "ok", ack |-> ack])
          /\ results' = Accumulate(results, result)
    /\ upos' = upos + 1
    /\ UNCHANGED <<upc, udocs, uret, uerr>>
    /\ UNCHANGED <<cvars, wvars, mvars>>
    /\ UNCHANGED <<dataset, ctx, nctx>>
    /\ UNCHANGED qvars

\* Lines 105-106, one turn of the loop with the upload failing: the error
\* leaves upload_document and upload_documents uncaught.  The backend may
\* have persisted the document before the failure (persisted) or not.
UploadFails(persisted) ==
    /\ upc = "loop"
    /\ upos < Len(udocs)
    /\ LET document == udocs[upos + 1]
           ack == Ack(None, Len(store) + 1)
       IN /\ store' = IF persisted
                      THEN Append(store, [id |-> ack.id, document |-> document])
                      ELSE store
          /\ ureqs' = Append(ureqs, [document |-> document, doc_id |-> None,
                                     res |-> TransportError, ack |-> ack])
    /\ upos' = upos + 1
    /\ upc' = UploadRaises(TransportError).upc
    /\ uerr' = UploadRaises(TransportError).uerr
    /\ UNCHANGED <<udocs, results, uret>>
    /\ UNCHANGED <<cvars, wvars, mvars>>
    /\ UNCHANGED <<dataset, ctx, nctx>>
    /\ UNCHANGED qvars

\* Line 108: the iterator is exhausted; return results.
UploadReturn ==
    /\ upc = "loop"
    /\ upos = Len(udocs)
    /\ upc' = "returned"
    /\ uret' = Some(results)
    /\ UNCHANGED <<udocs, upos, results, uerr, store, ureqs>>
    /\ UNCHANGED <<cvars, wvars, mvars>>
    /\ UNCHANGED <<dataset, ctx, nctx>>
    /\ UNCHANGED qvars

InitUpload ==
    /\ upc = "idle"
    /\ udocs = <<>>
    /\ upos = 0
    /\ results = <<>>
    /\ uret = None
    /\ uerr = "none"
    /\ store = <<>>
    /\ ureqs = <<>>

\* ------------------------------------------------- close and the with block
\* One entry of the with-block history: the block is entered, raises, the
\* connection is closed ("exit": by __exit__, "call": by the caller), or the
\* with statement is left with the exception it passes on ("none": none).
Event(ev, of) == [ev |-> ev, of |-> of]

\* Exceptions of the caller's own code inside the block.
BlockErrors == {"RuntimeError"}

\* Lines 208-215, close(): self._client.close() on the underlying connection.
close(log, by) == Append(log, Event("close", by))

\* An __exit__ that releases the connection only when the block succeeded.
ExitClosesOnSuccess(exc_type) == exc_type = "none"

\* Lines 221-223: __exit__ calls self.close() whatever the block ended with.
ExitCloses(exc_type) == TRUE

\* Lines 221-223: __exit__ returns None, so the with statement re-raises the
\* exception of the block.
ExitSuppresses(exc_type) == FALSE

\* Lines 217-219, "with client:" or "with ElasticsearchClient(...) as c:":
\* __enter__ returns the client itself.
Enter ==
    /\ client = "ready"
    /\ wpc = "out"
    /\ upc = "idle"
    /\ wpc' = "in"
    /\ wlog' = Append(wlog, Event("enter", "self"))
    /\ UNCHANGED <<cvars, uvars, mvars>>
    /\ UNCHANGED <<dataset, ctx, nctx>>
    /\ UNCHANGED qvars

\* An explicit client.close() of the caller, inside or outside the block.
CloseCall ==
    /\ client = "ready"
    /\ upc # "loop"
    /\ Cardinality({k \in DOMAIN wlog : wlog[k] = Event("close", "call")})
         < MaxCloses
    /\ wlog' = close(wlog, "call")
    /\ UNCHANGED <<cvars, uvars, mvars, wpc>>
    /\ UNCHANGED <<dataset, ctx, nctx>>
    /\ UNCHANGED qvars

\* The block ends, normally (exc = "none") or by an exception: the error of
\* the upload made in it, or one of the caller's own code.  The with
\* statement calls __exit__ (lines 221-223) and, __exit__ having returned a
\* false value, re-raises the exception.
WithExit(exc) ==
    /\ wpc = "in"
    /\ upc # "loop"
    /\ IF upc = "raised" THEN exc = uerr ELSE exc \in {"none"} \cup BlockErrors
    /\ LET raised == IF exc # "none"
                      THEN Append(wlog, Event("raise", exc)) ELSE wlog
           exited == IF ExitCloses(exc) THEN close(raised, "exit") ELSE raised
       IN wlog' = Append(exited, Event("leave", IF ExitSuppresses(exc)
                                                THEN "none" ELSE exc))
    /\ wpc' = "left"
    /\ UNCHANGED <<cvars, uvars, mvars>>
    /\ UNCHANGED <<dataset, ctx, nctx>>
    /\ UNCHANGED qvars

InitWith ==
    /\ wpc = "out"
    /\ wlog = <<>>

\* -------------------------------------------------------------- send_email
\* The command lines of a run: -h given or not, each option absent (None)
\* or present with its value.  --recipient-email and --smtp-host are always
\* given; --sender-email stands for the required options that may be missing.
Argvs ==
    [help : BOOLEAN,
     sender_name : {None, Some("Ann"), Some("")},
     recipient_name : {None, Some("Bob")},
     sender_email : {None, Some("ann@example.org")},
     recipient_email : {Some("bob@example.org")},
     smtp_host : {Some("mail.example.org")},
     smtp_port : {None, Some("465"), Some("abc")},
     no_ssl : BOOLEAN,
     text_file : {None, Some("body.txt"), Some("gone.txt"), Some("locked.txt")},
     html_file : {None, Some("body.html"), Some("gone.html"),
                  Some("binary.html")}]

NoArgv == [help |-> FALSE]

\* The file system: Path.exists() of a path, and what read_text(utf-8) of
\* it gives: its content, or the error raised.
Exists(path) == path \notin {"gone.txt", "gone.html"}
ReadText(path) ==
    CASE path = "locked.txt" -> [err |-> "OSError", text |-> ""]
      [] path = "binary.html" -> [err |-> "UnicodeDecodeError", text |-> ""]
      [] path \in {"gone.txt", "gone.html"} -> [err |-> "OSError", text |-> ""]
      [] OTHER -> [err |-> "none", text |-> "content of " \o path]

\* int(value) of argparse's type=int.
IsInt(value) == value \in {"465", "587", "25"}

\* Lines 86-163, parse_arguments: exit |-> Some(n) when argparse ends the
\* process by raising SystemExit(n) (0 after printing the help, 2 from
\* parser.error), else exit |-> None and the namespace is the command line.
\* Line 151, parse_args: -h, the required options, type=int of --smtp-port.
\* Lines 154-161: at least one content file, and each given file exists.
parse_arguments(av) ==
    IF av.help THEN [exit |-> Some(0)]
    ELSE IF \/ av.sender_email = None
            \/ av.recipient_email = None
            \/ av.smtp_host = None
            \/ av.smtp_port = None
         THEN [exit |-> Some(2)]
    ELSE IF ~IsInt(av.smtp_port[1]) THEN [exit |-> Some(2)]
    ELSE IF av.text_file = None /\ av.html_file = None THEN [exit |-> Some(2)]
    ELSE IF av.text_file # None /\ ~Exists(av.text_file[1])
         THEN [exit |-> Some(2)]
    ELSE IF av.html_file # None /\ ~Exists(av.html_file[1])
         THEN [exit |-> Some(2)]
    ELSE [exit |-> None]

\* Lines 36-44: a header with the display name when one is given (and not
\* empty).
Address(name, email) ==
    IF name # None /\ name[1] # "" THEN name[1] \o " <" \o email[1] \o ">" ELSE email[1]

\* Lines 47-55: the parts attached, plain text first.
Parts(av) ==
    (IF av.text_file # None
     THEN <<[subtype |-> "plain", text |-> ReadText(av.text_file[1]).text]>>
     ELSE <<>>)
    \o (IF av.html_file # None
        THEN <<[subtype |-> "html", text |-> ReadText(av.html_file[1]).text]>>
        ELSE <<>>)

\* Lines 13-57, create_message: err is the exception a read_text raised (the
\* first one), "none" when the message was built.
create_message(av) ==
    LET terr == IF av.text_file # None THEN ReadText(av.text_file[1]).err
                ELSE "none"
        herr == IF av.html_file # None THEN ReadText(av.html_file[1]).err
                ELSE "none"
    IN [err |-> IF terr # "none" THEN terr ELSE herr,
        msg |-> [From |-> Address(av.sender_name, av.sender_email),
                 To |-> Address(av.recipient_name, av.recipient_email),
                 parts |-> Parts(av)]]

\* A handler that reports success whatever was raised.
HandledAsSuccess(exc) == Some(0)

\* Lines 197-202: both except clauses of main print the error and return 1.
Handled(exc) == Some(1)

\* Lines 197 and 200: main catches OSError, SMTPException and every other
\* Exception; SystemExit is a BaseException and passes through both.
Caught(exc) == exc # "SystemExit"

\* Lines 173-174 and 206-207: main calls parse_arguments inside its try.
\* SystemExit leaves main uncaught and ends the process with its own code.
ParseArguments ==
    /\ mpc = "start"
    /\ argv # NoArgv
    /\ LET parsed == parse_arguments(argv)
       IN IF parsed.exit # None
          THEN /\ mexc' = "SystemExit"
               /\ mpc' = "exit"
               /\ code' = IF Caught("SystemExit") THEN Handled("SystemExit")
                          ELSE parsed.exit
          ELSE /\ mpc' = "parsed"
               /\ UNCHANGED <<mexc, code>>
    /\ UNCHANGED <<argv, message, delivered>>
    /\ UNCHANGED <<cvars, uvars, wvars>>
    /\ UNCHANGED <<dataset, ctx, nctx>>
    /\ UNCHANGED qvars

\* Lines 176-184 (and 197-202 when a content file cannot be read).
CreateMessage ==
    /\ mpc = "parsed"
    /\ LET made == create_message(argv)
       IN IF made.err # "none"
          THEN /\ mexc' = made.err
               /\ mpc' = "exit"
               /\ code' = Handled(made.err)
               /\ UNCHANGED message
          ELSE /\ message' = Some(made.msg)
               /\ mpc' = "built"
               /\ UNCHANGED <<mexc, code>>
    /\ UNCHANGED <<argv, delivered>>
    /\ UNCHANGED <<cvars, uvars, wvars>>
    /\ UNCHANGED <<dataset, ctx, nctx>>
    /\ UNCHANGED qvars

\* What connecting to the server and send_message can end with.
SendOutcomes == {"ok", "OSError", "SMTPException"}

\* The envelope the SMTP server accepts (lines 78-83).
Delivery(av, msg) ==
    [host |-> av.smtp_host[1], port |-> av.smtp_port[1], ssl |-> ~av.no_ssl,
     message |-> msg]

\* Lines 186-203 and 60-83: send_email connects (SMTP_SSL unless --no-ssl)
\* and sends; main prints and returns 0, or catches the error and returns
\* 1.  A failing send may have got the message accepted before the error
\* (accepted) or not.
SendEmail(outcome, accepted) ==
    /\ mpc = "built"
    /\ outcome = "ok" => accepted
    /\ delivered' = IF accepted
                    THEN Append(delivered, Delivery(argv, message[1]))
                    ELSE delivered
    /\ mexc' = IF outcome = "ok" THEN "none" ELSE outcome
    /\ code' = IF outcome = "ok" THEN Some(0) ELSE Handled(outcome)
    /\ mpc' = "exit"
    /\ UNCHANGED <<argv, message>>
    /\ UNCHANGED <<cvars, uvars, wvars>>
    /\ UNCHANGED <<dataset, ctx, nctx>>
    /\ UNCHANGED qvars

InitEmail ==
    /\ mpc = "start"
    /\ argv = NoArgv
    /\ message = None
    /\ delivered = <<>>
    /\ mexc = "none"
    /\ code = None

\* ---------------------------------------------------------- specifications
\* Query iterations on a constructed client over a static index.
Init ==
    /\ \E n \in 0..MaxDocs : dataset = [k \in 1..n |-> Hit(k)]
    /\ InitQuery
    /\ client = "ready"
    /\ conn = ConnectionParams("https://es-a:9200", "key", None)
    /\ cerr = NoExc
    /\ pings = <<"True">>
    /\ InitUpload
    /\ InitWith
    /\ InitEmail

Next ==
    \/ \E i \in Iters : Call(i)
    \/ \E i \in Iters : StartFails(i)
    \/ \E i \in Iters, withId \in BOOLEAN : Start(i, withId)
    \/ \E i \in Iters : Pull(i)
    \/ \E i \in Iters : Close(i)
    \/ \E c \in Ctxs : Expire(c)

Spec == Init /\ [][Next]_vars

\* One query iteration from the call to after its end, over every kind of
\* query input.
SoloNext ==
    \/ CallWith(1, AllQueries, AllQueryStrings)
    \/ StartFails(1)
    \/ \E withId \in BOOLEAN : Start(1, withId)
    \/ Pull(1)
    \/ Close(1)
    \/ PullEnded(1)
    \/ \E c \in Ctxs : Expire(c)

SoloSpec == Init /\ [][SoloNext]_vars

\* One run of send_email.py, for every command line.
EmailInit ==
    /\ dataset = <<>>
    /\ InitQuery
    /\ client = "unbuilt"
    /\ conn = NoConn
    /\ cerr = NoExc
    /\ pings = <<>>
    /\ InitUpload
    /\ InitWith
    /\ mpc = "start"
    /\ argv \in Argvs
    /\ message = None
    /\ delivered = <<>>
    /\ mexc = "none"
    /\ code = None

EmailNext ==
    \/ ParseArguments
    \/ CreateMessage
    \/ \E outcome \in SendOutcomes, accepted \in BOOLEAN :
         SendEmail(outcome, accepted)

EmailSpec == EmailInit /\ [][EmailNext]_vars

\* Construction of the client and a batch upload through it.
ClientInit ==
    /\ dataset = <<>>
    /\ InitQuery
    /\ client = "unbuilt"
    /\ conn = NoConn
    /\ cerr = NoExc
    /\ pings = <<>>
    /\ InitUpload
    /\ InitWith
    /\ InitEmail

ClientNext ==
    \/ \E endpoint \in Endpoints, api_key \in ApiKeys,
          ca_cert \in {None} \cup {Some(x) : x \in CaCerts},
          ping \in PingResults :
         Construct(endpoint, api_key, ca_cert, ping)
    \/ \E docs \in SeqsUpTo(Documents, MaxBatch) : UploadCall(docs)
    \/ UploadNext
    \/ \E persisted \in BOOLEAN : UploadFails(persisted)
    \/ UploadReturn
    \/ Enter
    \/ CloseCall
    \/ \E exc \in {"none", TransportError} \cup BlockErrors : WithExit(exc)

ClientSpec == ClientInit /\ [][ClientNext]_vars

\* ------------------------------------------------------- history operators
Entries(i) == {reqs[i][k] : k \in DOMAIN reqs[i]}

\* The fetches (search, scroll) of iteration i, in order.
Fetches(i) == SelectSeq(reqs[i], LAMBDA e : e.op # "clear")

\* The documents a fully consumed query of iteration i has to yield.
Expected(i) ==
    LET m == Matching(QueryBody(args[i].query, args[i].query_string))
    IN [k \in 1..Len(m) |-> Source(m[k]["_id"])]

RECURSIVE SumN(_)
SumN(es) == IF es = <<>> THEN 0 ELSE Head(es).n + SumN(Tail(es))

\* ------------------------------------------------------------------ claims
\* C1: once an iteration that obtained a cursor has ended (exhausted, closed
\* after a pull, or failed), a clear_scroll request covering that cursor has
\* been issued.
C1_CursorReleased ==
    \A i \in Iters : \A c \in Ctxs :
        (pc[i] \in Terminal /\ ctx[c].owner = i)
            => \E e \in Entries(i) : e.op = "clear" /\ e.tok.c = c

\* C1 holds of every iteration whose successful scroll responses all carried
\* a _scroll_id: the only way the cursor is lost is a response without one.
C1_ReleasedWhenIdsKept ==
    \A i \in Iters : \A c \in Ctxs :
        (/\ pc[i] \in Terminal
         /\ ctx[c].owner = i
         /\ \A e \in Entries(i) : (e.op = "scroll" /\ e.res = "ok") => e.rtok # NoToken)
            => \E e \in Entries(i) : e.op = "clear" /\ e.tok.c = c

\* A well-behaved run of iteration i: every search and scroll it made
\* succeeded and carried a scroll id.
Clean(i) ==
    \A e \in Entries(i) : e.op # "clear" => (e.res = "ok" /\ e.rtok # NoToken)

\* C2: pagination transparency.  Against the static index, a fully consumed
\* query whose fetches all succeeded ends normally having yielded every
\* matching document exactly once, in the backend's order, whatever the page
\* size: two such iterations of the same query yield the same sequence.
C2_PaginationTransparency ==
    \A i \in Iters :
        (pc[i] \in {"done", "raised"} /\ Clean(i))
            => /\ pc[i] = "done"
               /\ out[i] = Expected(i)
               /\ \A k, l \in DOMAIN out[i] : k # l => out[i][k] # out[i][l]
               /\ \A j \in Iters :
                    (/\ pc[j] = "done" /\ Clean(j)
                     /\ QueryBody(args[j].query, args[j].query_string)
                          = QueryBody(args[i].query, args[i].query_string))
                        => out[j] = out[i]

\* C2 witness: two fully consumed match-all queries with different page
\* sizes over an index of more documents than the smaller page, same output.
C2_Witness ==
    /\ pc[1] = "done" /\ pc[2] = "done" /\ Clean(1) /\ Clean(2)
    /\ args[1].size # args[2].size
    /\ args[1].query = None /\ args[1].query_string = None
    /\ args[2].query = None /\ args[2].query_string = None
    /\ Len(out[1]) = MaxDocs /\ out[1] = out[2]
    /\ Len(reqs[1]) # Len(reqs[2])

\* The failed scroll of iteration i: the index in reqs[i] of a scroll entry
\* that raised (0 when there is none).
FailedScroll(i) ==
    IF \E k \in DOMAIN reqs[i] : reqs[i][k].op = "scroll" /\ reqs[i][k].res # "ok"
    THEN CHOOSE k \in DOMAIN reqs[i] : reqs[i][k].op = "scroll" /\ reqs[i][k].res # "ok"
    ELSE 0

FetchOutcome(i) ==
    LET f == Fetches(i)
        last == f[Len(f)]
    IN IF last.res # "ok" THEN [pc |-> "raised", err |-> last.res]
       ELSE IF last.n = 0 THEN [pc |-> "done", err |-> "none"]
       ELSE [pc |-> "closed", err |-> "none"]

\* C4: a failure of clear_scroll never reaches the consumer and never
\* changes the outcome: whenever an iteration ended with a release, failed
\* or not, its terminal outcome is the one its fetches decided (normal end,
\* close, or the original fetch error) and its documents are those fetched
\* up to the point it ended.
C4_CleanupFailureSwallowed ==
    \A i \in Iters : \A k \in DOMAIN reqs[i] :
        reqs[i][k].op = "clear" =>
            /\ k = Len(reqs[i])
            /\ pc[i] = FetchOutcome(i).pc
            /\ err[i] = FetchOutcome(i).err
            /\ out[i] = SubSeq(Expected(i), 1, Len(out[i]))
            /\ pc[i] # "closed" => Len(out[i]) = SumN(Fetches(i))

\* C4 witness: a failed release after a normal end, and a failed release
\* after a failed scroll whose error the consumer still sees.
C4_Witness ==
    /\ pc[1] = "done" /\ reqs[1][Len(reqs[1])].op = "clear"
    /\ reqs[1][Len(reqs[1])].res = TransportError
    /\ Len(out[1]) = MaxDocs
    /\ pc[2] = "raised" /\ err[2] = NotFoundError
    /\ reqs[2][Len(reqs[2])].op = "clear"
    /\ reqs[2][Len(reqs[2])].res = TransportError

\* C5: a scroll the backend rejects because the cursor's retention window
\* elapsed ends the sequence with that error raised to the consumer; and a
\* sequence ends normally only when every matching document was yielded.
C5_ExpiryIsAnError ==
    \A i \in Iters :
        /\ \A e \in Entries(i) :
             (e.op = "scroll" /\ e.res = NotFoundError /\ ctx[e.tok.c].st = "expired")
                 => (pc[i] = "raised" /\ err[i] = NotFoundError)
        /\ pc[i] = "done" => out[i] = Expected(i)

\* C5 witness: the cursor expired after the first of two pages; the
\* consumer got one document and then the error.
C5_Witness ==
    /\ pc[1] = "raised" /\ err[1] = NotFoundError
    /\ ctx[1].st = "expired" /\ ctx[1].owner = 1
    /\ Len(out[1]) = 1 /\ Len(Expected(1)) = 2
    /\ reqs[1][2].op = "scroll" /\ reqs[1][2].res = NotFoundError

\* C6: with two iterations interleaved on the same client, every scroll and
\* clear_scroll of an iteration is made with a scroll id the backend issued
\* to that iteration in an earlier response; no request of one iteration
\* advances or releases the other's cursor; and each iteration that ends
\* normally has yielded exactly its own result set.
C6_IterationsIsolated ==
    /\ \A i \in Iters : \A k \in DOMAIN reqs[i] :
         (reqs[i][k].op # "search" /\ reqs[i][k].tok # NoToken)
             => \E l \in 1..(k - 1) : reqs[i][l].rtok = reqs[i][k].tok
    /\ \A c \in Ctxs : ctx[c].st # "unused" => ctx[c].by = {ctx[c].owner}
    /\ \A i \in Iters : pc[i] = "done" => out[i] = Expected(i)

\* C6 witness: iteration 1 was closed mid-stream and released its cursor
\* while iteration 2, running a different query, went on to scroll its own
\* cursor to the end.
C6_Witness ==
    /\ pc[1] = "closed" /\ ctx[1].st = "cleared" /\ ctx[1].owner = 1
    /\ pc[2] = "done" /\ ctx[2].st = "cleared" /\ ctx[2].owner = 2
    /\ Len(out[1]) = 1 /\ out[2] = Expected(2) /\ Len(out[2]) = 1
    /\ Expected(1) # Expected(2)
    /\ Len(reqs[2]) = 3

C8_QueryErrorKind ==
    \A i \in Iters : pc[i] = "raised" => err[i] = "QueryError"

\* C8 as amended: a failed search or scroll ends the query with the error
\* the backend call raised, unchanged; query() defines no error of its own.
C8_RawErrorPropagates ==
    \A i \in Iters :
        LET f == Fetches(i)
        IN (f # <<>> /\ f[Len(f)].res # "ok")
               => (pc[i] = "raised" /\ err[i] = f[Len(f)].res
                   /\ err[i] \in {TransportError, NotFoundError, ValueError})

\* C8 witness: iteration 1 failed at its initial search, iteration 2 at a
\* later scroll; both consumers hold the transport error.
C8_Witness ==
    /\ pc[1] = "raised" /\ err[1] = TransportError
    /\ Len(reqs[1]) = 1 /\ reqs[1][1].op = "search" /\ npull[1] = 1
    /\ pc[2] = "raised" /\ err[2] = TransportError /\ Len(reqs[2]) = 3
    /\ reqs[2][2].op = "scroll" /\ reqs[2][2].res = TransportError
    /\ Len(out[2]) >= 1

\* C9: upload_documents issues one index request per document, in input
\* order, and when all succeed the list it returns has the length of the
\* input with result[k] the backend's acknowledgment of input document k.
C9_UploadOrder ==
    /\ \A k \in DOMAIN ureqs : k <= Len(udocs) /\ ureqs[k].document = udocs[k]
    /\ upc = "returned" =>
         /\ Len(uret[1]) = Len(udocs)
         /\ Len(ureqs) = Len(udocs)
         /\ \A k \in DOMAIN udocs : uret[1][k] = ureqs[k].ack

\* C9 witness: a returned batch of MaxBatch documents, not all equal.
C9_Witness ==
    /\ upc = "returned" /\ Len(udocs) = MaxBatch /\ udocs[1] # udocs[2]
    /\ Len(uret[1]) = MaxBatch /\ uret[1][1] # uret[1][2]

\* C10: if the upload of input document k fails, that error reaches the
\* caller, no index request is issued for a later document, and documents
\* 1..k-1 are persisted under the ids acknowledged (nothing is rolled back).
C10_UploadStopsAtFailure ==
    \A k \in DOMAIN ureqs :
        ureqs[k].res # "ok" =>
            /\ k = Len(ureqs)
            /\ upc = "raised" /\ uerr = ureqs[k].res /\ uret = None
            /\ Len(results) = k - 1
            /\ \A j \in 1..(k - 1) :
                 /\ ureqs[j].res = "ok"
                 /\ store[j] = [id |-> ureqs[j].ack.id, document |-> udocs[j]]

\* C10 witness: the second of three documents failed; the first is
\* persisted and the third was never sent.
C10_Witness ==
    /\ upc = "raised" /\ uerr = TransportError
    /\ Len(udocs) = 3 /\ Len(ureqs) = 2 /\ ureqs[2].res = TransportError
    /\ Len(store) = 1 /\ store[1].document = udocs[1]

C12_CloseOnEveryExit ==
    LET leaves == {k \in DOMAIN wlog : wlog[k].ev = "leave"}
        exits == {k \in DOMAIN wlog : wlog[k] = Event("close", "exit")}
        raises == {k \in DOMAIN wlog : wlog[k].ev = "raise"}
    IN /\ (wpc = "left") = (leaves # {})
       /\ Cardinality(exits) = Cardinality(leaves)
       /\ \A k \in leaves :
            /\ k > 1
            /\ wlog[k - 1] = Event("close", "exit")
            /\ \A r \in raises : r < k /\ wlog[k].of = wlog[r].of
            /\ raises = {} => wlog[k].of = "none"

\* An upload inside the block failed, the caller had also closed the client
\* itself, and the with statement was left with the upload's error.
C12_Witness ==
    /\ wpc = "left"
    /\ upc = "raised"
    /\ \E k \in DOMAIN wlog : wlog[k] = Event("close", "call")
    /\ \E k \in DOMAIN wlog : wlog[k] = Event("raise", TransportError)
    /\ wlog[Len(wlog)] = Event("leave", TransportError)

\* The command line is one argparse rejects: a required option missing, a
\* port that is no integer, no content file, or a content file not found.
Rejected(av) == ~av.help /\ parse_arguments(av).exit # None

\* C13, as claimed: every run of the email CLI ends with exit code 0 or 1,
\* 0 exactly when the message was built and sent without error, 1 on every
\* error, argument and content-file problems included.
C13_TwoExitCodes ==
    mpc = "exit" =>
      /\ code \in {Some(0), Some(1)}
      /\ (code = Some(0)) = (mexc = "none" /\ delivered # <<>>)
      /\ Rejected(argv) => code = Some(1)

\* C13, amended: every run ends with exit code 0, 1 or 2.  It is 2 exactly
\* when argparse rejects the command line, 1 exactly when building or
\* sending the message raised an error that main caught, and 0 exactly when
\* the message was sent without error or only the help was asked for; but
\* for the help, 0 is never produced when sending did not complete.
C13_ExitCodes ==
    mpc = "exit" =>
      /\ code \in {Some(0), Some(1), Some(2)}
      /\ (code = Some(2)) = Rejected(argv)
      /\ (code = Some(1)) =
           (mexc \in {"OSError", "SMTPException", "UnicodeDecodeError"})
      /\ (code = Some(0)) = (argv.help \/ (mexc = "none" /\ delivered # <<>>))
      /\ (code = Some(0) /\ ~argv.help) =>
           /\ message # None
           /\ delivered = <<Delivery(argv, message[1])>>
      /\ code # Some(0) /\ mexc \notin SendOutcomes => delivered = <<>>

\* A run whose content file does not exist ended with exit code 2, nothing
\* sent.
C13_Witness ==
    /\ mpc = "exit"
    /\ argv.text_file = Some("gone.txt")
    /\ argv.sender_email # None
    /\ argv.smtp_port = Some("465")
    /\ ~argv.help
    /\ code = Some(2)
    /\ delivered = <<>>

\* C14: a scroll is issued only with a cursor token held: no scroll and no
\* release goes out without a token, and an iteration whose last response
\* carried no token ends normally (done) once that page is yielded, also
\* when the page was not empty.
C14_ScrollOnlyWithToken ==
    \A i \in Iters :
      /\ \A k \in DOMAIN reqs[i] :
           reqs[i][k].op \in {"scroll", "clear"} => Truthy(reqs[i][k].tok)
      /\ \A k \in DOMAIN reqs[i] :
           (/\ reqs[i][k].op \in {"search", "scroll"}
            /\ reqs[i][k].res = "ok"
            /\ ~Truthy(reqs[i][k].rtok)) =>
               /\ k = Len(reqs[i])
               /\ pc[i] \in Terminal \ {"closed"} =>
                    (pc[i] = "done" /\ err[i] = "none")

\* C15: one page at a time.  The next page is fetched only after every
\* document of the pages before it was yielded, so the documents fetched
\* and not yet yielded all belong to the page fetched last, and are never
\* more than one page of at most size documents.
C15_OnePageAtATime ==
    \A i \in Iters :
      Fetches(i) # <<>> =>
        LET f == Fetches(i)
            fetched == SumN(f)
            yielded == Len(out[i])
        IN /\ yielded <= fetched
           /\ fetched - yielded <= f[Len(f)].n
           /\ fetched - yielded <= args[i].size
           /\ \A k \in DOMAIN f : f[k].n <= args[i].size

\* A page of two was yielded in full, the scroll after it answered, and the
\* first page had one document waiting after the first pull.
C15_Witness ==
    /\ Len(reqs[1]) >= 2
    /\ reqs[1][1].n = 2
    /\ reqs[1][2].op = "scroll"
    /\ reqs[1][2].res = "ok"
    /\ Len(out[1]) = 2
    /\ npull[1] = 3

\* The last request of iteration i is a release.
Released(i) == reqs[i] # <<>> /\ reqs[i][Len(reqs[i])].op = "clear"

\* C16: the release is the last backend request of an iteration: it is
\* issued at most once, the iteration has ended when it was issued, and from
\* then on the iteration issues no request and yields no document, whatever
\* is pulled later.
C16_ReleaseIsLast ==
    /\ [](\A i \in Iters :
           /\ \A k \in DOMAIN reqs[i] :
                reqs[i][k].op = "clear" => k = Len(reqs[i])
           /\ Released(i) => pc[i] \in Terminal)
    /\ [][\A i \in Iters :
            Released(i) => /\ reqs'[i] = reqs[i]
                           /\ out'[i] = out[i]
                           /\ pc'[i] = pc[i]
                           /\ err'[i] = err[i]]_vars

\* A fully consumed iteration released its cursor and was pulled once more.
C16_Witness ==
    /\ Released(1)
    /\ pc[1] = "done"
    /\ Len(out[1]) = 2
    /\ npull[1] = Len(out[1]) + 2

\* C17: against a well-behaved static backend with N matching documents and
\* page size p, a fully consumed query has issued exactly one search, then
\* ceil(N/p) scrolls when N > 0, the last of them answered with an empty
\* page, and no scroll when N = 0, and then one release (a token being held).
C17_RequestCount ==
    \A i \in Iters :
      (pc[i] = "done" /\ Clean(i)) =>
        LET N == Len(Expected(i))
            p == args[i].size
            f == Fetches(i)
        IN /\ f # <<>>
           /\ f[1].op = "search"
           /\ \A k \in 2..Len(f) : f[k].op = "scroll"
           /\ Len(f) - 1 = (IF N > 0 THEN (N + p - 1) \div p ELSE 0)
           /\ N > 0 => f[Len(f)].n = 0
           /\ Len(reqs[i]) = Len(f) + 1
           /\ Released(i)

\* Two documents in pages of two: the search, one scroll (empty), the
\* release.
C17_Witness ==
    /\ pc[1] = "done"
    /\ Clean(1)
    /\ args[1].size = 2
    /\ Len(out[1]) = 2
    /\ Len(reqs[1]) = 3
    /\ reqs[1][2].op = "scroll"
    /\ reqs[1][2].n = 0
    /\ reqs[1][3].op = "clear"

\* C18: the iteration tracks the most recent cursor token: every scroll is
\* issued with the token of the response right before it in the iteration
\* (the search response for the first scroll), and the release is issued
\* with the token of the last response received, never an older one.
C18_TracksLatestToken ==
    \A i \in Iters :
      \A k \in DOMAIN reqs[i] :
        /\ reqs[i][k].op = "scroll" =>
             /\ k > 1
             /\ reqs[i][k - 1].op \in {"search", "scroll"}
             /\ reqs[i][k - 1].res = "ok"
             /\ reqs[i][k].tok = reqs[i][k - 1].rtok
        /\ reqs[i][k].op = "clear" =>
             LET oks == {j \in 1..(k - 1) : reqs[i][j].op # "clear"
                                            /\ reqs[i][j].res = "ok"}
             IN /\ oks # {}
                /\ \E j \in oks : /\ \A l \in oks : l <= j
                                  /\ reqs[i][k].tok = reqs[i][j].rtok

\* The backend re-issued the cursor under a new token during the iteration
\* and the release went out with the new one.
C18_Witness ==
    /\ Released(1)
    /\ reqs[1][1].rtok = Token(1, 0)
    /\ reqs[1][Len(reqs[1])].tok = Token(1, 1)
    /\ reqs[1][Len(reqs[1]) - 1].res = "ok"

\* C19: query is lazy.  The call issues no request; until the first pull
\* the iteration has issued nothing and holds no cursor; the first request
\* is the search, issued by a pull, and a failing search is raised to the
\* consumer by that pull; a sequence closed before its first pull has
\* issued neither a search nor a release.
C19_LazyStart ==
    \A i \in Iters :
      /\ pc[i] = "new" => npull[i] = 0
      /\ npull[i] = 0 =>
           /\ reqs[i] = <<>>
           /\ scroll_id[i] = NoToken
           /\ out[i] = <<>>
           /\ err[i] = "none"
           /\ \A c \in Ctxs : ctx[c].owner # i
      /\ reqs[i] # <<>> =>
           /\ reqs[i][1].op = "search"
           /\ reqs[i][1].res # "ok" =>
                /\ pc[i] = "raised"
                /\ err[i] = reqs[i][1].res
                /\ Len(reqs[i]) = 1
                /\ out[i] = <<>>
      /\ (pc[i] = "closed" /\ pend[i] = "none") =>
           /\ reqs[i] = <<>>
           /\ scroll_id[i] = NoToken
           /\ \A c \in Ctxs : ctx[c].owner # i

\* A sequence was closed before its first pull and pulled afterwards: no
\* request was issued.
C19_Witness ==
    /\ pc[1] = "closed"
    /\ pend[1] = "none"
    /\ npull[1] = 1
    /\ reqs[1] = <<>>

====
